---- MODULE Spec2Model ----
(***************************************************************************)
(* EcoHub: a fleet of simulated smart-home devices (devices.py) driven by  *)
(* asyncio device tasks, a periodic analytics pipeline and a daemon thread *)
(* that appends telemetry to history.log (main.py).                        *)
(*                                                                         *)
(* Numbers: temperatures, brightness and battery are integers; humidity is *)
(* kept in tenths (60.2 is 602).  A device object is its __dict__: a       *)
(* function from attribute names to values.                                *)
(***************************************************************************)
EXTENDS Integers, Sequences, FiniteSets, TLC

(***************************************************************************)
(* Bounds of the model.                                                    *)
(***************************************************************************)
\* How many devices of the roster have their objects and tasks in the state.
MaxDev == 3
\* How far below and above a range's ends the values written to a setter go.
MaxSlack == 2
\* The wall clock (one unit per event-loop step) stops the run at MaxTime.
MaxTime == 4

VARIABLES
    devices,        \* main.devices: roster index -> device object (__dict__)
    pc,             \* roster index -> where that device_task coroutine is
    analytics_pc,   \* where the analytics_loop coroutine is
    data_queue,     \* main.data_queue (queue.Queue), head first
    history_log,    \* the lines of history.log, oldest first
    writer,         \* file_writer_worker: [pc, data]
    phase,          \* the process: running, interrupted, goodbye, exited
    now,            \* time.time()
    pushed,         \* history: every entry put on data_queue, in put order
    dequeued,       \* history: every entry data_queue.get() returned, in order
    dropped,        \* history: every entry whose write raised IOError
    last,           \* history: the last call made on a device object
    status,         \* the DeviceStatus handed to analytic_engine (unit harness)
    results         \* the results of the last two analytic_engine calls on status

vars == <<devices, pc, analytics_pc, data_queue, history_log, writer, phase, now,
          pushed, dequeued, dropped, last, status, results>>

(***************************************************************************)
(* devices.py: constructors                                                *)
(***************************************************************************)
SmartDevice(device_id, name, location) ==
    [device_id |-> device_id, name |-> name, location |-> location,
     device_type |-> "GENERIC", is_connected |-> FALSE]

\* Each subclass runs SmartDevice.__init__ and then sets its own attributes,
\* device_type among them (the left operand of @@ wins).
SmartBulb(device_id, name, location, brightness) ==
    [device_type |-> "BULB", _brightness |-> brightness, is_on |-> FALSE]
        @@ SmartDevice(device_id, name, location)

SmartThermostat(device_id, name, location, current_temp, target_temp, humidity) ==
    [device_type |-> "THERMOSTAT", current_temp |-> current_temp,
     _target_temp |-> target_temp, humidity |-> humidity]
        @@ SmartDevice(device_id, name, location)

\* last_snapshot is not passed: it is time.time() at construction, time 0.
SmartCamera(device_id, name, location, battery_level, motion_detected) ==
    [device_type |-> "CAMERA", _battery_level |-> battery_level,
     last_snapshot |-> 0, motion_detected |-> motion_detected]
        @@ SmartDevice(device_id, name, location)

(***************************************************************************)
(* main.py: the roster main() builds                                       *)
(***************************************************************************)
\* Mutant of roster: the list ends one device early.
roster_without_last ==
    << SmartBulb("bulb_01", "Living Room Light", "Living Room", 80),
       SmartThermostat("term_01", "Bedroom Thermostat", "Bedroom", 23, 22, 400),
       SmartThermostat("term_02", "Living Room Thermostat", "Living Room", 20, 22, 602),
       SmartCamera("camera_01", "Front Gate Camera", "Front Gate", 78, TRUE),
       SmartCamera("camera_02", "Patio Camera", "Patio", 100, FALSE),
       SmartCamera("camera_03", "Garden Camera", "Back Garden", 99, FALSE),
       SmartCamera("camera_04", "Second Garden Camera", "Back Garden", 9, FALSE),
       SmartThermostat("term_03", "Second Floor Thermostat", "Hallway", 21, 24, 352),
       SmartBulb("bulb_02", "Bedroom 1 Light", "Bedroom 1", 80),
       SmartBulb("bulb_03", "Bedroom 2 Light", "Bedroom 2", 50),
       SmartBulb("bulb_04", "Bathroom light", "Bathroom", 90),
       SmartBulb("bulb_05", "Patio light", "Patio", 0) >>

roster ==
    << SmartBulb("bulb_01", "Living Room Light", "Living Room", 80),
       SmartThermostat("term_01", "Bedroom Thermostat", "Bedroom", 23, 22, 400),
       SmartThermostat("term_02", "Living Room Thermostat", "Living Room", 20, 22, 602),
       SmartCamera("camera_01", "Front Gate Camera", "Front Gate", 78, TRUE),
       SmartCamera("camera_02", "Patio Camera", "Patio", 100, FALSE),
       SmartCamera("camera_03", "Garden Camera", "Back Garden", 99, FALSE),
       SmartCamera("camera_04", "Second Garden Camera", "Back Garden", 9, FALSE),
       SmartThermostat("term_03", "Second Floor Thermostat", "Hallway", 21, 24, 352),
       SmartBulb("bulb_02", "Bedroom 1 Light", "Bedroom 1", 80),
       SmartBulb("bulb_03", "Bedroom 2 Light", "Bedroom 2", 50),
       SmartBulb("bulb_04", "Bathroom light", "Bathroom", 90),
       SmartBulb("bulb_05", "Patio light", "Patio", 0),
       SmartBulb("bulb_06", "Kitchen light", "Kitchen", 80) >>

\* The devices in the state: the first MaxDev of the roster in this order
\* (the low-battery camera, a thermostat and a bulb first).
TaskOrder == <<7, 2, 1, 9, 4, 3, 10, 5, 8, 6, 11, 12, 13>>

Devices == {TaskOrder[i] : i \in 1..(IF MaxDev < Len(roster) THEN MaxDev ELSE Len(roster))}

OfType(t) == {d \in Devices : roster[d].device_type = t}

(***************************************************************************)
(* devices.py: property setters                                            *)
(***************************************************************************)
\* Mutant of brightness_setter: a value above 100 is stored as it is.
brightness_setter_unclamped(self, value, isint) ==
    IF 0 <= value
    THEN [self EXCEPT !._brightness = value]
    ELSE [self EXCEPT !._brightness = 0]

\* SmartBulb.brightness setter.  isint is isinstance(value, int); a value that
\* is not an int is a float with an integral value here, so int(value) = value.
brightness_setter(self, value, isint) ==
    LET s1 == IF ~isint THEN [self EXCEPT !._brightness = value] ELSE self
    IN  IF 0 <= value /\ value <= 100
        THEN [s1 EXCEPT !._brightness = value]
        ELSE IF value > 100
             THEN [s1 EXCEPT !._brightness = 100]
             ELSE IF value < 0 THEN [s1 EXCEPT !._brightness = 0] ELSE s1

\* Mutant of target_temp_setter: an out-of-range value is clamped like the
\* other two fields instead of rejected.
target_temp_setter_clamping(self, value) ==
    IF 15 <= value /\ value <= 30
    THEN [self EXCEPT !._target_temp = value]
    ELSE IF value > 30
         THEN [self EXCEPT !._target_temp = 30]
         ELSE [self EXCEPT !._target_temp = 15]

\* SmartThermostat.target_temp setter: an out-of-range value is only reported.
target_temp_setter(self, value) ==
    IF 15 <= value /\ value <= 30
    THEN [self EXCEPT !._target_temp = value]
    ELSE self

\* Mutant of battery_level_setter: a value below 0 is stored as it is.
battery_level_setter_unclamped(self, value) ==
    IF value <= 100
    THEN [self EXCEPT !._battery_level = value]
    ELSE [self EXCEPT !._battery_level = 100]

\* SmartCamera.battery_level setter.
battery_level_setter(self, value) ==
    IF 0 <= value /\ value <= 100
    THEN [self EXCEPT !._battery_level = value]
    ELSE IF value > 100
         THEN [self EXCEPT !._battery_level = 100]
         ELSE IF value < 0 THEN [self EXCEPT !._battery_level = 0] ELSE self

(***************************************************************************)
(* Initial state: main() has built the roster and created the tasks, the   *)
(* writer thread is started and blocked on the empty queue.                *)
(***************************************************************************)
NoCall == [op |-> "none"]
NoStatus == [type |-> "none"]

Init ==
    /\ devices = [d \in Devices |-> roster[d]]
    /\ pc = [d \in Devices |-> "connecting"]
    /\ analytics_pc = "sleep"
    /\ data_queue = <<>>
    /\ history_log = <<>>
    /\ writer = [pc |-> "get"]
    /\ phase = "running"
    /\ now = 0
    /\ pushed = <<>>
    /\ dequeued = <<>>
    /\ dropped = <<>>
    /\ last = NoCall
    /\ status = NoStatus
    /\ results = <<>>

(***************************************************************************)
(* Unit harness for the setters: any caller may write any number to        *)
(* brightness, target_temp and battery_level of a device of the right      *)
(* type.                                                                   *)
(***************************************************************************)
Around(lo, hi) == ((lo - MaxSlack)..(lo + MaxSlack)) \cup ((hi - MaxSlack)..(hi + MaxSlack))

SetBrightness(d, value, isint) ==
    /\ devices' = [devices EXCEPT ![d] = brightness_setter(devices[d], value, isint)]
    /\ last' = [op |-> "brightness", dev |-> d, arg |-> value]
    /\ UNCHANGED <<pc, analytics_pc, data_queue, history_log, writer, phase, now,
                   pushed, dequeued, dropped, status, results>>

SetTargetTemp(d, value) ==
    /\ devices' = [devices EXCEPT ![d] = target_temp_setter(devices[d], value)]
    /\ last' = [op |-> "target_temp", dev |-> d, arg |-> value, old |-> devices]
    /\ UNCHANGED <<pc, analytics_pc, data_queue, history_log, writer, phase, now,
                   pushed, dequeued, dropped, status, results>>

SetBatteryLevel(d, value) ==
    /\ devices' = [devices EXCEPT ![d] = battery_level_setter(devices[d], value)]
    /\ last' = [op |-> "battery_level", dev |-> d, arg |-> value]
    /\ UNCHANGED <<pc, analytics_pc, data_queue, history_log, writer, phase, now,
                   pushed, dequeued, dropped, status, results>>

NextSetters ==
    \/ \E d \in OfType("BULB"), value \in Around(0, 100), isint \in BOOLEAN :
          SetBrightness(d, value, isint)
    \/ \E d \in OfType("THERMOSTAT"), value \in Around(15, 30) :
          SetTargetTemp(d, value)
    \/ \E d \in OfType("CAMERA"), value \in Around(0, 100) :
          SetBatteryLevel(d, value)

SpecSetters == Init /\ [][NextSetters]_vars

(***************************************************************************)
(* Claims about the setters                                                *)
(***************************************************************************)
Clamp(lo, hi, v) == IF v < lo THEN lo ELSE IF v > hi THEN hi ELSE v

\* C1: after every sequence of writes through the brightness and battery_level
\* setters the stored values are in [0,100], and the value a write stored is
\* the written value when in range, 100 when above 100 and 0 when below 0.
C1_ClampedFields ==
    /\ \A d \in OfType("BULB") : devices[d]._brightness \in 0..100
    /\ \A d \in OfType("CAMERA") : devices[d]._battery_level \in 0..100
    /\ last.op = "brightness" =>
          devices[last.dev]._brightness = Clamp(0, 100, last.arg)
    /\ last.op = "battery_level" =>
          devices[last.dev]._battery_level = Clamp(0, 100, last.arg)

\* C1 witness: a write above 100 to a bulb was stored as 100 while a camera
\* holds 0 after a write below 0.
C1_Witness ==
    /\ last.op = "brightness" /\ last.arg > 100
    /\ devices[last.dev]._brightness = 100
    /\ \E c \in OfType("CAMERA") : devices[c]._battery_level = 0

\* C2: a write to target_temp outside [15,30] leaves the whole thermostat as
\* it was, a write inside stores the value, and target_temp stays in [15,30].
C2_TargetTempRejects ==
    /\ \A d \in OfType("THERMOSTAT") : devices[d]._target_temp \in 15..30
    /\ last.op = "target_temp" =>
          IF last.arg \in 15..30
          THEN devices = [last.old EXCEPT ![last.dev]._target_temp = last.arg]
          ELSE devices = last.old

\* C2 witness: an out-of-range write was made to a thermostat whose
\* target_temp an earlier write had changed.
C2_Witness ==
    /\ last.op = "target_temp" /\ last.arg > 30
    /\ devices[last.dev]._target_temp # roster[last.dev]._target_temp

(***************************************************************************)
(* devices.py: SmartDevice.send_update                                     *)
(***************************************************************************)
\* k.lstrip('_') on the attribute names a device object has.
lstrip_underscore(k) ==
    CASE k = "_brightness" -> "brightness"
      [] k = "_target_temp" -> "target_temp"
      [] k = "_battery_level" -> "battery_level"
      [] OTHER -> k

\* The log entry of a device at time t: the payload holds every attribute but
\* the five excluded ones, under its name without leading underscores.
send_update(self, t) ==
    LET kept == {k \in DOMAIN self :
                    k \notin {"device_id", "device_type", "is_connected", "name", "location"}}
        clean_payload ==
            [n \in {lstrip_underscore(k) : k \in kept} |->
                self[CHOOSE k \in kept : lstrip_underscore(k) = n]]
    IN  [device_id |-> self.device_id,
         type |-> self.device_type,
         timestamp |-> t,
         payload |-> clean_payload]

(***************************************************************************)
(* main.py: analytic_engine                                                *)
(***************************************************************************)
None == "None"

\* dict.get(key, default)
get(p, k, default) == IF k \in DOMAIN p THEN p[k] ELSE default

\* What random.random() may return, in hundredths: both sides of the 0.05 of
\* analytic_engine and of the 0.2 of device_task.
RandomDraws == {4, 5, 19, 20}

\* Mutant of analytic_engine: the random gate guards the camera's
\* TAKE_SNAPSHOT as well.
analytic_engine_random_camera(st, draw) ==
    LET p == st.payload
    IN  IF st.type = "THERMOSTAT"
        THEN IF get(p, "current_temp", 0) > get(p, "target_temp", 0)
             THEN "TRIGGER_COOLING"
             ELSE IF get(p, "current_temp", 0) < get(p, "target_temp", 0)
                  THEN "TRIGGER_HEATING"
                  ELSE None
        ELSE IF st.type = "CAMERA"
        THEN IF get(p, "battery_level", 100) < 10
             THEN "LOW_BATTERY_WARNING"
             ELSE IF get(p, "motion_detected", FALSE) /\ draw < 5
                  THEN "TAKE_SNAPSHOT"
                  ELSE None
        ELSE IF st.type = "BULB" /\ draw < 5
        THEN "TOGGLE"
        ELSE None

\* Mutant of analytic_engine: the camera's motion is checked before its
\* battery.
analytic_engine_motion_first(st, draw) ==
    LET p == st.payload
    IN  IF st.type = "THERMOSTAT"
        THEN IF get(p, "current_temp", 0) > get(p, "target_temp", 0)
             THEN "TRIGGER_COOLING"
             ELSE IF get(p, "current_temp", 0) < get(p, "target_temp", 0)
                  THEN "TRIGGER_HEATING"
                  ELSE None
        ELSE IF st.type = "CAMERA"
        THEN IF get(p, "motion_detected", FALSE)
             THEN "TAKE_SNAPSHOT"
             ELSE IF get(p, "battery_level", 100) < 10
                  THEN "LOW_BATTERY_WARNING"
                  ELSE None
        ELSE IF st.type = "BULB" /\ draw < 5
        THEN "TOGGLE"
        ELSE None

\* Mutant of analytic_engine: the thermostat cools from current_temp >=
\* target_temp on.
analytic_engine_cool_at_target(st, draw) ==
    LET p == st.payload
    IN  IF st.type = "THERMOSTAT"
        THEN IF get(p, "current_temp", 0) >= get(p, "target_temp", 0)
             THEN "TRIGGER_COOLING"
             ELSE IF get(p, "current_temp", 0) < get(p, "target_temp", 0)
                  THEN "TRIGGER_HEATING"
                  ELSE None
        ELSE IF st.type = "CAMERA"
        THEN IF get(p, "battery_level", 100) < 10
             THEN "LOW_BATTERY_WARNING"
             ELSE IF get(p, "motion_detected", FALSE)
                  THEN "TAKE_SNAPSHOT"
                  ELSE None
        ELSE IF st.type = "BULB" /\ draw < 5
        THEN "TOGGLE"
        ELSE None

\* draw is what random.random() returns if the call reaches it (type BULB only).
analytic_engine(st, draw) ==
    LET p == st.payload
    IN  IF st.type = "THERMOSTAT"
        THEN IF get(p, "current_temp", 0) > get(p, "target_temp", 0)
             THEN "TRIGGER_COOLING"
             ELSE IF get(p, "current_temp", 0) < get(p, "target_temp", 0)
                  THEN "TRIGGER_HEATING"
                  ELSE None
        ELSE IF st.type = "CAMERA"
        THEN IF get(p, "battery_level", 100) < 10
             THEN "LOW_BATTERY_WARNING"
             ELSE IF get(p, "motion_detected", FALSE)
                  THEN "TAKE_SNAPSHOT"
                  ELSE None
        ELSE IF st.type = "BULB" /\ draw < 5
        THEN "TOGGLE"
        ELSE None

(***************************************************************************)
(* Unit harness for analytic_engine: a status taken from a device object   *)
(* with any field values, and two calls on it with independent draws.      *)
(***************************************************************************)
InRange(lo, hi, S) == {v \in S : lo <= v /\ v <= hi}

EngineInputs ==
    {SmartThermostat("t", "T", "Room", c, g, 400) :
        c \in Around(15, 30), g \in InRange(15, 30, Around(15, 30))}
    \cup {SmartCamera("c", "C", "Room", b, m) :
        b \in InRange(0, 100, Around(0, 100) \cup Around(10, 10)), m \in BOOLEAN}
    \cup {[SmartBulb("b", "B", "Room", b) EXCEPT !.is_on = o] :
        b \in InRange(0, 100, Around(0, 100)), o \in BOOLEAN}

InitEngine ==
    /\ devices = [d \in Devices |-> roster[d]]
    /\ pc = [d \in Devices |-> "connecting"]
    /\ analytics_pc = "sleep"
    /\ data_queue = <<>>
    /\ history_log = <<>>
    /\ writer = [pc |-> "get"]
    /\ phase = "running"
    /\ now = 0
    /\ pushed = <<>>
    /\ dequeued = <<>>
    /\ dropped = <<>>
    /\ last = NoCall
    /\ \E self \in EngineInputs : status = send_update(self, 0)
    /\ results = <<>>

Evaluate ==
    \E r1 \in RandomDraws, r2 \in RandomDraws :
        /\ results' = << [draw |-> r1, command |-> analytic_engine(status, r1)],
                         [draw |-> r2, command |-> analytic_engine(status, r2)] >>
        /\ UNCHANGED <<devices, pc, analytics_pc, data_queue, history_log, writer,
                       phase, now, pushed, dequeued, dropped, last, status>>

NextEngine == Evaluate

SpecEngine == InitEngine /\ [][NextEngine]_vars

(***************************************************************************)
(* Claims about analytic_engine                                            *)
(***************************************************************************)
\* C4 as stated: for every type, BULB included, two calls on the same status
\* return the same command.
C4_Deterministic ==
    results # <<>> => results[1].command = results[2].command

\* C4 as amended: two calls on the same THERMOSTAT or CAMERA status return the
\* same command whatever random.random() would return; on a BULB status each
\* call returns TOGGLE or no command.
C4_DeterministicButBulb ==
    results # <<>> =>
        /\ status.type # "BULB" => results[1].command = results[2].command
        /\ status.type = "BULB" =>
              \A i \in 1..2 : results[i].command \in {"TOGGLE", None}

\* C4 witness: two calls on a camera status with different draws agreed on a
\* command.
C4_Witness ==
    /\ results # <<>>
    /\ status.type = "CAMERA"
    /\ results[1].draw < 5 /\ results[2].draw >= 5
    /\ results[1].command = "TAKE_SNAPSHOT"
    /\ results[2].command = "TAKE_SNAPSHOT"

\* C5: on a camera status, battery_level < 10 gives LOW_BATTERY_WARNING
\* whatever motion_detected is; otherwise motion gives TAKE_SNAPSHOT and no
\* motion gives no command.
C5_CameraPrecedence ==
    (results # <<>> /\ status.type = "CAMERA") =>
        \A i \in 1..2 :
            results[i].command =
                IF status.payload.battery_level < 10 THEN "LOW_BATTERY_WARNING"
                ELSE IF status.payload.motion_detected THEN "TAKE_SNAPSHOT"
                ELSE None

\* C5 witness: a camera status with low battery and motion was answered with
\* LOW_BATTERY_WARNING.
C5_Witness ==
    /\ results # <<>>
    /\ status.type = "CAMERA"
    /\ status.payload.battery_level < 10
    /\ status.payload.motion_detected
    /\ results[1].command = "LOW_BATTERY_WARNING"

\* C6: on a thermostat status the command is TRIGGER_COOLING exactly when
\* current_temp > target_temp, TRIGGER_HEATING exactly when it is below, and
\* no command exactly when they are equal.
C6_ThermostatDecision ==
    (results # <<>> /\ status.type = "THERMOSTAT") =>
        \A i \in 1..2 :
            LET c == status.payload.current_temp
                g == status.payload.target_temp
                r == results[i].command
            IN  /\ (r = "TRIGGER_COOLING") <=> (c > g)
                /\ (r = "TRIGGER_HEATING") <=> (c < g)
                /\ (r = None) <=> (c = g)

\* C6 witness: a thermostat status with current_temp = target_temp was
\* answered with no command.
C6_Witness ==
    /\ results # <<>>
    /\ status.type = "THERMOSTAT"
    /\ status.payload.current_temp = status.payload.target_temp
    /\ results[1].command = None

(***************************************************************************)
(* devices.py: execute_command of the three variants                       *)
(***************************************************************************)
SmartBulb_execute_command(self, command) ==
    IF command = "TOGGLE" THEN [self EXCEPT !.is_on = ~self.is_on] ELSE self

\* Mutant of SmartThermostat_execute_command: heating subtracts, as its
\* message "(-1)" says.
SmartThermostat_execute_command_heating_cools(self, command) ==
    IF command = "TRIGGER_COOLING"
    THEN [self EXCEPT !.current_temp = self.current_temp - 1]
    ELSE IF command = "TRIGGER_HEATING"
         THEN [self EXCEPT !.current_temp = self.current_temp - 1]
         ELSE self

SmartThermostat_execute_command(self, command) ==
    IF command = "TRIGGER_COOLING"
    THEN [self EXCEPT !.current_temp = self.current_temp - 1]
    ELSE IF command = "TRIGGER_HEATING"
         THEN [self EXCEPT !.current_temp = self.current_temp + 1]
         ELSE self

\* t is what time.time() returns; battery_level = 100 goes through the setter.
\* Mutant of SmartCamera_execute_command: LOW_BATTERY_WARNING is only
\* reported, the battery is not recharged.
SmartCamera_execute_command_no_recharge(self, command, t) ==
    IF command = "TAKE_SNAPSHOT"
    THEN [self EXCEPT !.last_snapshot = t]
    ELSE self

SmartCamera_execute_command(self, command, t) ==
    IF command = "TAKE_SNAPSHOT"
    THEN [self EXCEPT !.last_snapshot = t]
    ELSE IF command = "LOW_BATTERY_WARNING"
         THEN battery_level_setter(self, 100)
         ELSE self

\* device.execute_command(command): the method of the object's class.
execute_command(self, command, t) ==
    CASE self.device_type = "BULB" -> SmartBulb_execute_command(self, command)
      [] self.device_type = "THERMOSTAT" -> SmartThermostat_execute_command(self, command)
      [] self.device_type = "CAMERA" -> SmartCamera_execute_command(self, command, t)

(***************************************************************************)
(* Unit harness for execute_command: any command string, "REBOOT" standing *)
(* for the unrecognized ones, sent to any device as time goes by.          *)
(***************************************************************************)
Commands == {"TOGGLE", "TRIGGER_COOLING", "TRIGGER_HEATING", "TAKE_SNAPSHOT",
             "LOW_BATTERY_WARNING", "REBOOT"}

ExecuteCommand(d, command) ==
    /\ now < MaxTime
    /\ now' = now + 1
    /\ devices' = [devices EXCEPT ![d] = execute_command(devices[d], command, now')]
    /\ last' = [op |-> "execute_command", dev |-> d, arg |-> command,
                old |-> devices, time |-> now']
    /\ UNCHANGED <<pc, analytics_pc, data_queue, history_log, writer, phase,
                   pushed, dequeued, dropped, status, results>>

NextCommands == \E d \in Devices, command \in Commands : ExecuteCommand(d, command)

SpecCommands == Init /\ [][NextCommands]_vars

(***************************************************************************)
(* Claims about execute_command                                            *)
(***************************************************************************)
\* C8: a command changes only what it means for the variant it targets:
\* TOGGLE flips is_on of a bulb, TRIGGER_COOLING/TRIGGER_HEATING move
\* current_temp of a thermostat by -1/+1, TAKE_SNAPSHOT sets last_snapshot of
\* a camera to the current time, LOW_BATTERY_WARNING sets its battery_level to
\* 100; any other command on any variant leaves every field of every device
\* unchanged.
C8_CommandFrame ==
    last.op = "execute_command" =>
        LET o == last.old[last.dev]
            t == o.device_type
            c == last.arg
        IN  devices =
              [last.old EXCEPT ![last.dev] =
                CASE t = "BULB" /\ c = "TOGGLE" -> [o EXCEPT !.is_on = ~o.is_on]
                  [] t = "THERMOSTAT" /\ c = "TRIGGER_COOLING" ->
                        [o EXCEPT !.current_temp = o.current_temp - 1]
                  [] t = "THERMOSTAT" /\ c = "TRIGGER_HEATING" ->
                        [o EXCEPT !.current_temp = o.current_temp + 1]
                  [] t = "CAMERA" /\ c = "TAKE_SNAPSHOT" ->
                        [o EXCEPT !.last_snapshot = last.time]
                  [] t = "CAMERA" /\ c = "LOW_BATTERY_WARNING" ->
                        [o EXCEPT !._battery_level = 100]
                  [] OTHER -> o]

\* C8 witness: TRIGGER_HEATING was sent to a camera that an earlier
\* LOW_BATTERY_WARNING had recharged, after a thermostat was heated.
C8_Witness ==
    /\ last.op = "execute_command"
    /\ last.arg = "TRIGGER_HEATING"
    /\ devices[last.dev].device_type = "CAMERA"
    /\ devices[last.dev]._battery_level = 100
    /\ \E d \in OfType("THERMOSTAT") :
          devices[d].current_temp = roster[d].current_temp + 1

(***************************************************************************)
(* main.py: device_task                                                    *)
(***************************************************************************)
\* The coroutine is suspended at one of its awaits: line 106 ("connecting"),
\* line 112 ("sleep") or line 125 ("low_battery_sleep"), or it has ended with
\* CancelledError ("cancelled").
AwaitPoints == {"connecting", "sleep", "low_battery_sleep"}

\* Mutant of not_cancelled: the tasks go on after the interrupt.
not_cancelled_ignored == TRUE

\* asyncio resumes a coroutine with the result of its await only while no
\* cancellation was requested; after asyncio.run() caught the interrupt every
\* task is resumed with CancelledError instead.
not_cancelled == phase = "running"

\* SmartDevice.connect
connect(self) == [self EXCEPT !.is_connected = TRUE]

\* SmartCamera.detect_motion
detect_motion(self) == [self EXCEPT !.motion_detected = TRUE]

\* device.battery_level -= n: the getter, the subtraction, the setter.
drain_battery(self, n) == battery_level_setter(self, self._battery_level - n)

\* Lines 114-122: the camera's tick.  draw is random.random() in hundredths,
\* extra is randint(1, 3), base is randint(0, 5).
camera_mutation(self, draw, extra, base) ==
    LET s1 == IF draw < 20
              THEN drain_battery(detect_motion(self), extra)
              ELSE [self EXCEPT !.motion_detected = FALSE]
    IN  drain_battery(s1, base)

\* Mutant of thermostat_mutation: the drift is added to a local copy of
\* current_temp and never stored.
thermostat_mutation_lost(self, drift) == self

\* Line 129: the thermostat's tick; drift is random.uniform(-2, 2).
thermostat_mutation(self, drift) ==
    [self EXCEPT !.current_temp = self.current_temp + drift]

\* The values the model draws for randint(1, 3), randint(0, 5) and
\* uniform(-2, 2): the ends of each range and, for the drift, a value between.
ExtraDrains == {1, 3}
BaseDrains == {0, 5}
Drifts == {-2, -1, 2}

\* Mutant of queue_put: a LifoQueue.
queue_put_lifo(q, data) == <<data>> \o q

\* queue.Queue.put: the entry goes to the tail.
queue_put(q, data) == Append(q, data)

\* Line 131: data_queue.put(device.send_update()).
Put(d, object, t) ==
    /\ data_queue' = queue_put(data_queue, send_update(object, t))
    /\ pushed' = Append(pushed, send_update(object, t))

\* Lines 105-110: the connection latency is over, the device connects.
Connect(d) ==
    /\ not_cancelled
    /\ pc[d] = "connecting"
    /\ now < MaxTime
    /\ now' = now + 1
    /\ devices' = [devices EXCEPT ![d] = connect(devices[d])]
    /\ pc' = [pc EXCEPT ![d] = "sleep"]
    /\ UNCHANGED <<analytics_pc, data_queue, history_log, writer, phase,
                   pushed, dequeued, dropped, last, status, results>>

\* Lines 112-131 for a camera: the mutation, then either the put or, with
\* battery_level < 10, the await of line 125.
TickCamera(d) ==
    /\ not_cancelled
    /\ pc[d] = "sleep"
    /\ devices[d].device_type = "CAMERA"
    /\ now < MaxTime
    /\ now' = now + 1
    /\ \E draw \in RandomDraws, extra \in ExtraDrains, base \in BaseDrains :
          LET object == camera_mutation(devices[d], draw, extra, base)
          IN  /\ devices' = [devices EXCEPT ![d] = object]
              /\ IF object._battery_level < 10
                 THEN /\ pc' = [pc EXCEPT ![d] = "low_battery_sleep"]
                      /\ UNCHANGED <<data_queue, pushed>>
                 ELSE /\ Put(d, object, now')
                      /\ UNCHANGED pc
    /\ UNCHANGED <<analytics_pc, history_log, writer, phase,
                   dequeued, dropped, last, status, results>>

\* Lines 125-131: the camera's extra sleep is over, the snapshot is put.
ResumeCamera(d) ==
    /\ not_cancelled
    /\ pc[d] = "low_battery_sleep"
    /\ now < MaxTime
    /\ now' = now + 1
    /\ Put(d, devices[d], now')
    /\ pc' = [pc EXCEPT ![d] = "sleep"]
    /\ UNCHANGED <<devices, analytics_pc, history_log, writer, phase,
                   dequeued, dropped, last, status, results>>

\* Lines 112-131 for a thermostat.
TickThermostat(d) ==
    /\ not_cancelled
    /\ pc[d] = "sleep"
    /\ devices[d].device_type = "THERMOSTAT"
    /\ now < MaxTime
    /\ now' = now + 1
    /\ \E drift \in Drifts :
          LET object == thermostat_mutation(devices[d], drift)
          IN  /\ devices' = [devices EXCEPT ![d] = object]
              /\ Put(d, object, now')
    /\ UNCHANGED <<pc, analytics_pc, history_log, writer, phase,
                   dequeued, dropped, last, status, results>>

\* Mutant of TickBulb: the tick flips is_on before the put.
TickBulb_toggles(d) ==
    /\ not_cancelled
    /\ pc[d] = "sleep"
    /\ devices[d].device_type = "BULB"
    /\ now < MaxTime
    /\ now' = now + 1
    /\ devices' = [devices EXCEPT ![d].is_on = ~devices[d].is_on]
    /\ Put(d, devices'[d], now')
    /\ UNCHANGED <<pc, analytics_pc, history_log, writer, phase,
                   dequeued, dropped, last, status, results>>

\* Lines 112-131 for a bulb.
TickBulb(d) ==
    /\ not_cancelled
    /\ pc[d] = "sleep"
    /\ devices[d].device_type = "BULB"
    /\ now < MaxTime
    /\ now' = now + 1
    /\ Put(d, devices[d], now')
    /\ UNCHANGED <<devices, pc, analytics_pc, history_log, writer, phase,
                   dequeued, dropped, last, status, results>>

\* The task is resumed with CancelledError at the await it is suspended at and
\* ends.  The cancelled tasks are resumed in the order gather() holds them.
TaskCancelled(d) ==
    /\ phase = "interrupted"
    /\ pc[d] \in AwaitPoints
    /\ \A e \in Devices : e < d => pc[e] = "cancelled"
    /\ pc' = [pc EXCEPT ![d] = "cancelled"]
    /\ UNCHANGED <<devices, analytics_pc, data_queue, history_log, writer, phase, now,
                   pushed, dequeued, dropped, last, status, results>>

(***************************************************************************)
(* main.py: run_analytics_pipeline and analytics_loop                      *)
(***************************************************************************)
\* Mutant of target_device: next() takes the first device, whatever its id.
target_device_first(devs, st) == CHOOSE d \in DOMAIN devs : \A e \in DOMAIN devs : d <= e

\* Line 73: the device of the roster whose id is the status's.
target_device(devs, st) == CHOOSE d \in DOMAIN devs : devs[d].device_id = st.device_id

\* Lines 69-86: the devices after one pipeline run at time t; draws[d] is what
\* random.random() returns in the decision for device d (only a bulb's
\* decision draws).
run_analytics_pipeline(devs, draws, t) ==
    LET statuses == [d \in DOMAIN devs |-> send_update(devs[d], t)]
        decision(d) == analytic_engine(statuses[d], draws[d])
        actions == {d \in DOMAIN devs : decision(d) # None}
        command_for(x) ==
            decision(CHOOSE d \in actions : target_device(devs, statuses[d]) = x)
    IN  [x \in DOMAIN devs |->
            IF \E d \in actions : target_device(devs, statuses[d]) = x
            THEN execute_command(devs[x], command_for(x), t)
            ELSE devs[x]]

\* Lines 165-168: the 12 s sleep is over, the pipeline runs.
AnalyticsCycle ==
    /\ not_cancelled
    /\ analytics_pc = "sleep"
    /\ now < MaxTime
    /\ now' = now + 1
    /\ \E drawn \in [OfType("BULB") -> RandomDraws] :
          LET draws == [d \in Devices |-> IF d \in DOMAIN drawn THEN drawn[d] ELSE 0]
          IN  devices' = run_analytics_pipeline(devices, draws, now')
    /\ UNCHANGED <<pc, analytics_pc, data_queue, history_log, writer, phase,
                   pushed, dequeued, dropped, last, status, results>>

AnalyticsCancelled ==
    /\ phase = "interrupted"
    /\ analytics_pc = "sleep"
    /\ \A d \in Devices : pc[d] = "cancelled"
    /\ analytics_pc' = "cancelled"
    /\ UNCHANGED <<devices, pc, data_queue, history_log, writer, phase, now,
                   pushed, dequeued, dropped, last, status, results>>

(***************************************************************************)
(* main.py: file_writer_worker, a daemon thread                            *)
(***************************************************************************)
\* json.dumps(data) + "\n": a line of the log is modelled by the JSON object it
\* holds.
json_line(data) == data

\* Mutant of after_io_error: the exception is not caught and ends the thread.
after_io_error_uncaught(w) == [pc |-> "dead"]

\* What the worker is after the except IOError / finally of lines 36-39.
after_io_error(w) == [pc |-> "get"]

\* Line 31: data_queue.get() takes the head; it blocks on an empty queue.
WriterGet ==
    /\ phase # "exited"
    /\ writer.pc = "get"
    /\ data_queue # <<>>
    /\ writer' = [pc |-> "write", data |-> Head(data_queue)]
    /\ data_queue' = Tail(data_queue)
    /\ dequeued' = Append(dequeued, Head(data_queue))
    /\ UNCHANGED <<devices, pc, analytics_pc, history_log, phase, now,
                   pushed, dropped, last, status, results>>

\* Mutant of WriterWrite: the worker has no loop and ends after its first line.
WriterWrite_once ==
    /\ phase # "exited"
    /\ writer.pc = "write"
    /\ history_log' = Append(history_log, json_line(writer.data))
    /\ writer' = [pc |-> "dead"]
    /\ UNCHANGED <<devices, pc, analytics_pc, data_queue, phase, now,
                   pushed, dequeued, dropped, last, status, results>>

\* Mutant of WriterWrite: the file is opened with mode "w", which truncates it.
WriterWrite_truncating ==
    /\ phase # "exited"
    /\ writer.pc = "write"
    /\ history_log' = <<json_line(writer.data)>>
    /\ writer' = [pc |-> "get"]
    /\ UNCHANGED <<devices, pc, analytics_pc, data_queue, phase, now,
                   pushed, dequeued, dropped, last, status, results>>

\* Mutant of WriterWrite: the entry is a view of the live device, so the line
\* written holds the values the device has at the time of the write.
WriterWrite_live ==
    /\ phase # "exited"
    /\ writer.pc = "write"
    /\ history_log' =
          Append(history_log,
                 json_line(send_update(devices[target_device(devices, writer.data)],
                                       writer.data.timestamp)))
    /\ writer' = [pc |-> "get"]
    /\ UNCHANGED <<devices, pc, analytics_pc, data_queue, phase, now,
                   pushed, dequeued, dropped, last, status, results>>

\* Lines 34-35 and 39: the line is appended.
WriterWrite ==
    /\ phase # "exited"
    /\ writer.pc = "write"
    /\ history_log' = Append(history_log, json_line(writer.data))
    /\ writer' = [pc |-> "get"]
    /\ UNCHANGED <<devices, pc, analytics_pc, data_queue, phase, now,
                   pushed, dequeued, dropped, last, status, results>>

\* Lines 34-39: open or write raises IOError, which is reported.
WriterIOError ==
    /\ phase # "exited"
    /\ writer.pc = "write"
    /\ dropped' = Append(dropped, writer.data)
    /\ writer' = after_io_error(writer)
    /\ UNCHANGED <<devices, pc, analytics_pc, data_queue, history_log, phase, now,
                   pushed, dequeued, last, status, results>>

(***************************************************************************)
(* main.py: __main__                                                       *)
(***************************************************************************)
\* Ctrl-C: asyncio.run() cancels the main task and with it every task.
Interrupt ==
    /\ phase = "running"
    /\ phase' = "interrupted"
    /\ UNCHANGED <<devices, pc, analytics_pc, data_queue, history_log, writer, now,
                   pushed, dequeued, dropped, last, status, results>>

\* Lines 180-183: every task has ended, asyncio.run() raises KeyboardInterrupt
\* and the handler prints "All logs saved to history.log. Goodbye!".
Goodbye ==
    /\ phase = "interrupted"
    /\ \A d \in Devices : pc[d] = "cancelled"
    /\ analytics_pc = "cancelled"
    /\ phase' = "goodbye"
    /\ UNCHANGED <<devices, pc, analytics_pc, data_queue, history_log, writer, now,
                   pushed, dequeued, dropped, last, status, results>>

\* The main thread is over: the interpreter exits and the daemon thread with
\* it, wherever it is.
Exit ==
    /\ phase = "goodbye"
    /\ phase' = "exited"
    /\ UNCHANGED <<devices, pc, analytics_pc, data_queue, history_log, writer, now,
                   pushed, dequeued, dropped, last, status, results>>

Next ==
    \/ \E d \in Devices : Connect(d)
    \/ \E d \in Devices : TickCamera(d)
    \/ \E d \in Devices : ResumeCamera(d)
    \/ \E d \in Devices : TickThermostat(d)
    \/ \E d \in Devices : TickBulb(d)
    \/ \E d \in Devices : TaskCancelled(d)
    \/ AnalyticsCycle
    \/ AnalyticsCancelled
    \/ WriterGet
    \/ WriterWrite
    \/ WriterIOError
    \/ Interrupt
    \/ Goodbye
    \/ Exit

Spec == Init /\ [][Next]_vars

\* The steps of the process while nothing interrupts it.
NextRunning ==
    \/ \E d \in Devices : Connect(d)
    \/ \E d \in Devices : TickCamera(d)
    \/ \E d \in Devices : ResumeCamera(d)
    \/ \E d \in Devices : TickThermostat(d)
    \/ \E d \in Devices : TickBulb(d)
    \/ AnalyticsCycle
    \/ WriterGet
    \/ WriterWrite
    \/ WriterIOError

\* Lines 165-168: analytics_loop is resumed when its sleep is over, whatever
\* the pipeline then does to the devices; of the steps of the process these
\* are the AnalyticsCycle steps, and it is enabled exactly when they are.
AnalyticsWakes ==
    /\ not_cancelled
    /\ analytics_pc = "sleep"
    /\ now < MaxTime
    /\ now' = now + 1
    /\ UNCHANGED <<pc, analytics_pc, data_queue, history_log, writer, phase,
                   pushed, dequeued, dropped, last, status, results>>
    /\ devices' = devices \/ devices' # devices

\* The running process under the scheduling the code relies on: the writer
\* thread, blocked in get() or in the file write, runs again once it can (the
\* write ending either way), and the event loop resumes analytics_loop when
\* its sleep is over.
FairRunning ==
    /\ Init /\ [][NextRunning]_vars
    /\ WF_vars(WriterGet)
    /\ WF_vars(WriterWrite \/ WriterIOError)
    /\ WF_vars(AnalyticsWakes)

(***************************************************************************)
(* Claims about the running system                                         *)
(***************************************************************************)
Range(q) == {q[i] : i \in 1..Len(q)}

From(q, id) == SelectSeq(q, LAMBDA e : e.device_id = id)

NoDuplicates(q) == \A i \in 1..Len(q), j \in 1..Len(q) : i # j => q[i] # q[j]

\* C3: under every interleaving of the device tasks and the writer, every
\* entry put on the queue is dequeued at most once and is either dequeued or
\* still queued (none lost, none duplicated), and the entries of one device
\* leave the queue in the order that device put them.
C3_QueueExactlyOnceInOrder ==
    LET out == dequeued \o data_queue
    IN  /\ NoDuplicates(pushed)
        /\ NoDuplicates(out)
        /\ Range(out) = Range(pushed)
        /\ \A d \in Devices :
              From(out, roster[d].device_id) = From(pushed, roster[d].device_id)

\* C3 witness: two devices have put entries, one of them after the other's,
\* and the writer has dequeued them all.
C3_Witness ==
    /\ data_queue = <<>>
    /\ Len(dequeued) >= 2
    /\ \E i \in 1..Len(dequeued), j \in 1..Len(dequeued) :
          i < j /\ dequeued[i].device_id # dequeued[j].device_id

\* The entries the writer is through with.
Processed ==
    IF writer.pc = "write" THEN SubSeq(dequeued, 1, Len(dequeued) - 1) ELSE dequeued

\* C7: an entry whose write failed is in neither the log nor the queue, the
\* worker is never ended by it, and the log holds every other processed entry
\* in dequeue order, those dequeued after a failure included.
C7_WriteFailureDropsOne ==
    /\ writer.pc \in {"get", "write"}
    /\ \A e \in Range(dropped) :
          e \notin Range(data_queue) /\ json_line(e) \notin Range(history_log)
    /\ dropped = SelectSeq(Processed, LAMBDA e : json_line(e) \notin Range(history_log))
    /\ history_log =
          [i \in 1..(Len(Processed) - Len(dropped)) |->
              json_line(SelectSeq(Processed, LAMBDA e : e \notin Range(dropped))[i])]

\* C7 witness: an entry dequeued after one that was dropped is in the log.
C7_Witness ==
    \E i \in 1..Len(dequeued), j \in 1..Len(dequeued) :
        /\ i < j
        /\ dequeued[i] \in Range(dropped)
        /\ json_line(dequeued[j]) \in Range(history_log)

\* C9: once "All logs saved to history.log" is printed the queue is empty and
\* every entry that was put is in the log (or was dropped by a failed write).
C9_ShutdownDrain ==
    phase \in {"goodbye", "exited"} =>
        /\ data_queue = <<>>
        /\ writer.pc = "get"
        /\ \A e \in Range(pushed) :
              json_line(e) \in Range(history_log) \/ e \in Range(dropped)

\* C10: after the interrupt no step changes a device or puts an entry; a task
\* ends at an await and its ending changes no device; and every task has
\* ended when the handler prints its message.
C10_Cancellation ==
    /\ [](phase \in {"goodbye", "exited"} =>
            /\ analytics_pc = "cancelled"
            /\ \A d \in Devices : pc[d] = "cancelled")
    /\ [][ /\ phase # "running" => (devices' = devices /\ pushed' = pushed)
           /\ \A d \in Devices :
                 (pc[d] # "cancelled" /\ pc'[d] = "cancelled") =>
                     (pc[d] \in AwaitPoints /\ devices' = devices /\ pushed' = pushed)
         ]_vars

\* C10 witness: the process is over, entries were put before the interrupt,
\* and a camera that had drained its battery in a tick was cancelled in the
\* sleep of line 125, before putting that tick's snapshot.
C10_Witness ==
    /\ phase = "exited"
    /\ pushed # <<>>
    /\ \E d \in OfType("CAMERA") :
          /\ pc[d] = "cancelled"
          /\ devices[d].is_connected
          /\ devices[d]._battery_level < roster[d]._battery_level
          /\ From(pushed, roster[d].device_id) = <<>>

\* The devices of the roster of one type.
RosterOfType(t) == {i \in 1..Len(roster) : roster[i].device_type = t}

\* One task per device, on the roster's own objects: the tasks and the device
\* objects in the state are those of the roster, under their ids.
RosterFixed ==
    /\ \A i \in 1..Len(roster), j \in 1..Len(roster) :
          i # j => roster[i].device_id # roster[j].device_id
    /\ {roster[i].device_type : i \in 1..Len(roster)} = {"BULB", "THERMOSTAT", "CAMERA"}
    /\ DOMAIN devices = Devices
    /\ DOMAIN pc = DOMAIN devices
    /\ \A d \in Devices :
          /\ devices[d].device_id = roster[d].device_id
          /\ devices[d].device_type = roster[d].device_type
          /\ pc[d] \in AwaitPoints \cup {"cancelled"}

\* C11 as stated: the roster holds exactly 12 devices of the 3 types, each with
\* one task, and never gains or loses a device.
C11_RosterOfTwelve == Len(roster) = 12 /\ RosterFixed

\* C11 as amended: the roster holds exactly 13 devices (6 bulbs, 3
\* thermostats, 4 cameras), each with one task, and never gains or loses a
\* device.
C11_RosterOfThirteen ==
    /\ Len(roster) = 13
    /\ Cardinality(RosterOfType("BULB")) = 6
    /\ Cardinality(RosterOfType("THERMOSTAT")) = 3
    /\ Cardinality(RosterOfType("CAMERA")) = 4
    /\ RosterFixed

\* C11 witness: the system has run: every task in the state has connected its
\* device and entries were put.
C11_Witness ==
    /\ \A d \in Devices : devices[d].is_connected /\ pc[d] # "connecting"
    /\ pushed # <<>>

\* The step puts an entry of device d (main.py line 131).
PutBy(d) ==
    /\ Len(pushed') = Len(pushed) + 1
    /\ pushed'[Len(pushed')].device_id = devices[d].device_id

\* The task of d is past its tick's mutation and before the tick's put.
MidTick(d) == pc[d] \notin {"connecting", "sleep", "cancelled"}

\* C12: within one tick nothing comes between the mutation and the put: while a
\* task stands between the two no step changes its device, and the entry put
\* is the snapshot of the device as the tick's mutation left it.
C12_TickAtomic ==
    [][\A d \in Devices :
          /\ MidTick(d) => devices'[d] = devices[d]
          /\ PutBy(d) => pushed'[Len(pushed')] = send_update(devices'[d], now')]_vars

\* C13: in every reachable state of the running system every camera's
\* battery_level is in [0,100], every bulb's brightness is in [0,100] and every
\* thermostat's target_temp is in [15,30]; the roster starts within them.
C13_FieldRanges ==
    /\ \A i \in RosterOfType("CAMERA") :
          0 <= roster[i]._battery_level /\ roster[i]._battery_level <= 100
    /\ \A i \in RosterOfType("BULB") :
          0 <= roster[i]._brightness /\ roster[i]._brightness <= 100
    /\ \A i \in RosterOfType("THERMOSTAT") :
          15 <= roster[i]._target_temp /\ roster[i]._target_temp <= 30
    /\ \A d \in OfType("CAMERA") :
          0 <= devices[d]._battery_level /\ devices[d]._battery_level <= 100
    /\ \A d \in OfType("BULB") :
          0 <= devices[d]._brightness /\ devices[d]._brightness <= 100
    /\ \A d \in OfType("THERMOSTAT") :
          15 <= devices[d]._target_temp /\ devices[d]._target_temp <= 30

\* C13 witness: a camera's ticks have drained its battery to the lower end.
C13_Witness ==
    \E d \in OfType("CAMERA") :
        /\ devices[d]._battery_level = 0
        /\ \E i \in 1..Len(pushed) : pushed[i].device_id = devices[d].device_id

\* The variant fields of a device object, under the names the log uses.
FieldValues(o) ==
    CASE o.device_type = "BULB" ->
            [brightness |-> o._brightness, is_on |-> o.is_on]
      [] o.device_type = "THERMOSTAT" ->
            [current_temp |-> o.current_temp, humidity |-> o.humidity,
             target_temp |-> o._target_temp]
      [] o.device_type = "CAMERA" ->
            [motion_detected |-> o.motion_detected,
             battery_level |-> o._battery_level,
             last_snapshot |-> o.last_snapshot]

\* The entries that exist outside the log: queued, or held by the worker.
Held == Range(data_queue) \cup (IF writer.pc = "write" THEN {writer.data} ELSE {})

\* C14: a snapshot is a point-in-time copy: the entry put carries the id, the
\* type and the field values its device has at that moment, taking it changes
\* no field of the device, the snapshots created never change afterwards, and
\* every entry queued, held or written to the log is one of them unchanged.
C14_SnapshotIsCopy ==
    /\ [][/\ SubSeq(pushed', 1, Len(pushed)) = pushed
          /\ \A d \in Devices :
                PutBy(d) =>
                   /\ pushed'[Len(pushed')] =
                         [device_id |-> devices'[d].device_id,
                          type |-> devices'[d].device_type,
                          timestamp |-> now',
                          payload |-> FieldValues(devices'[d])]
                   /\ (devices[d].device_type = "BULB" \/ MidTick(d))
                         => devices' = devices]_vars
    /\ [](/\ Held \subseteq Range(pushed)
          /\ \A i \in 1..Len(history_log) : history_log[i] \in Range(pushed))

\* C14 witness: the log holds a record of a device whose fields have changed
\* since the snapshot was taken.
C14_Witness ==
    \E i \in 1..Len(history_log), d \in Devices :
        /\ history_log[i].device_id = devices[d].device_id
        /\ history_log[i].payload # FieldValues(devices[d])

\* The step is one analytics cycle: it takes clock time, resumes no device
\* task and puts nothing.
AnalyticsStep == now' = now + 1 /\ pc' = pc /\ pushed' = pushed

\* C15: in an analytics cycle every device receives at most one command, and
\* only the non-null decision on its own snapshot of that cycle; a device whose
\* decision is null is left unchanged.
C15_OneCommandPerDevice ==
    [][AnalyticsStep =>
          \A d \in Devices :
             \E draw \in RandomDraws :
                LET command == analytic_engine(send_update(devices[d], now'), draw)
                IN  devices'[d] = IF command = None
                                  THEN devices[d]
                                  ELSE execute_command(devices[d], command, now')]_vars

\* C15 witness: the first cycle has recharged the low-battery camera and left
\* a bulb, whose decision was null, as the roster built it.
C15_Witness ==
    /\ now = 1
    /\ \E d \in OfType("CAMERA") :
          devices[d]._battery_level = 100 /\ roster[d]._battery_level < 10
    /\ \E d \in OfType("BULB") : devices[d] = roster[d]

\* C16: a bulb's own task never changes is_on or brightness: a tick of a bulb
\* only puts a snapshot; is_on changes only by a TOGGLE decided in an analytics
\* cycle, and brightness stays what the roster gave it.
C16_BulbFrame ==
    /\ [][\A d \in OfType("BULB") :
             /\ PutBy(d) => devices'[d] = devices[d]
             /\ devices'[d]._brightness = devices[d]._brightness
             /\ devices'[d].is_on # devices[d].is_on =>
                   /\ AnalyticsStep
                   /\ \E draw \in RandomDraws :
                         analytic_engine(send_update(devices[d], now'), draw) = "TOGGLE"]_vars
    /\ [](\A d \in OfType("BULB") : devices[d]._brightness = roster[d]._brightness)

\* C16 witness: a bulb whose task has put a snapshot is on, switched by a
\* TOGGLE.
C16_Witness ==
    \E d \in OfType("BULB") :
        /\ devices[d].is_on
        /\ \E i \in 1..Len(pushed) :
              pushed[i].device_id = devices[d].device_id /\ ~pushed[i].payload.is_on

\* The entries of q whose line is in the log.
Written(q) == SelectSeq(q, LAMBDA e : json_line(e) \in Range(history_log))

\* C17: the log is append-only and written by the worker alone: a step either
\* leaves the log as it is or is the worker appending the line of the entry it
\* just dequeued; so the log is the written entries in dequeue order, and the
\* records of one device are in the order the device put them.
C17_AppendOnlyLog ==
    /\ [][\/ history_log' = history_log
          \/ /\ writer.pc = "write" /\ writer'.pc = "get"
             /\ writer.data = dequeued[Len(dequeued)]
             /\ history_log' = Append(history_log, json_line(writer.data))
             /\ UNCHANGED <<devices, pc, data_queue, pushed, dequeued>>]_vars
    /\ [](/\ history_log = [i \in 1..Len(Written(dequeued)) |->
                               json_line(Written(dequeued)[i])]
          /\ \A d \in Devices :
                From(history_log, roster[d].device_id)
                   = [i \in 1..Len(Written(From(pushed, roster[d].device_id))) |->
                         json_line(Written(From(pushed, roster[d].device_id))[i])])

\* C17 witness: the log holds two records of one device, appended one after
\* the other's write failed.
C17_Witness ==
    /\ dropped # <<>>
    /\ \E i \in 1..Len(history_log), j \in 1..Len(history_log) :
          i < j /\ history_log[i].device_id = history_log[j].device_id

\* C18: while the process runs the worker never stops consuming and a
\* non-empty queue never blocks it, and, the worker being scheduled fairly,
\* every entry put is eventually dequeued and then in the log or dropped by a
\* failed write.  (pushed only grows and a processed entry stays processed, so
\* "always eventually: not yet put, or processed" says that each entry, once
\* put, is eventually processed.)
C18_PersistenceLiveness ==
    /\ [](writer.pc \in {"get", "write"})
    /\ [](writer.pc = "get" /\ data_queue # <<>> => ENABLED WriterGet)
    /\ \A i \in 1..MaxTime :
          []<>(\/ Len(pushed) < i
               \/ /\ Len(dequeued) >= i
                  /\ \/ json_line(pushed[i]) \in Range(history_log)
                     \/ pushed[i] \in Range(dropped))

\* C18 witness: the worker has emptied the queue, one entry into the log and
\* one dropped.
C18_Witness ==
    /\ data_queue = <<>> /\ writer.pc = "get"
    /\ history_log # <<>> /\ dropped # <<>>

temp_delta(command) ==
    CASE command = "TRIGGER_COOLING" -> -1
      [] command = "TRIGGER_HEATING" -> 1
      [] OTHER -> 0

\* The step is a tick of device d's task: the task leaves its inter-tick wait.
TickBy(d) ==
    /\ pc[d] = "sleep" /\ now' = now + 1
    /\ PutBy(d) \/ pc'[d] = "low_battery_sleep"

\* C20: no update of a shared device field is lost: every step leaves in the
\* field the value it held before the step plus the update the step applies
\* (a thermostat's drift in its tick, the +1/-1 of the command decided in an
\* analytics cycle; a camera's drains in its tick, clamped at 0, the recharge
\* in a cycle; the flip of is_on in a cycle), and no other step touches it;
\* and only a camera's task ever stands inside a tick, after its writes.
C20_NoLostUpdate ==
    /\ [](\A d \in Devices : MidTick(d) => devices[d].device_type = "CAMERA")
    /\ [][\A d \in Devices :
             LET command == analytic_engine(send_update(devices[d], now'), 0)
                 old == devices[d]
                 new == devices'[d]
             IN  CASE old.device_type = "THERMOSTAT" ->
                        new.current_temp - old.current_temp \in
                           IF AnalyticsStep THEN {temp_delta(command)}
                           ELSE IF TickBy(d) THEN Drifts
                           ELSE {0}
                   [] old.device_type = "CAMERA" ->
                        new._battery_level \in
                           IF AnalyticsStep
                           THEN {IF command = "LOW_BATTERY_WARNING"
                                 THEN 100 ELSE old._battery_level}
                           ELSE IF TickBy(d)
                           THEN {Clamp(0, 100, Clamp(0, 100, old._battery_level - x) - y) :
                                    x \in ExtraDrains \cup {0}, y \in BaseDrains}
                           ELSE {old._battery_level}
                   [] old.device_type = "BULB" ->
                        new.is_on # old.is_on => AnalyticsStep]_vars

\* C20 witness: a thermostat's task has applied one drift and an analytics
\* cycle has then applied a command to the same current_temp.
C20_Witness ==
    \E d \in OfType("THERMOSTAT") :
        LET mine == From(pushed, devices[d].device_id)
        IN  /\ Len(mine) = 1
            /\ mine[1].payload.current_temp # roster[d].current_temp
            /\ devices[d].current_temp - mine[1].payload.current_temp \in {-1, 1}

====
